---- MODULE Spec2Model ----
(***************************************************************************)
(* Model of lambda-service-check.js: resolve a hostname, connect to every  *)
(* address, start TLS, look for a greeting, and report each identifier     *)
(* that is down at most once.                                              *)
(*                                                                         *)
(* Strings are modelled two ways.  Text that is only concatenated, trimmed *)
(* and printed (reasons, error messages) is a sequence of tokens, a token  *)
(* being either a run of whitespace or text with no whitespace at its      *)
(* ends.  Text that is compared with received bytes (the greeting) is a    *)
(* sequence of UTF-16 code units, and a Buffer is a sequence of bytes.     *)
(***************************************************************************)
EXTENDS Integers, Sequences, FiniteSets, TLC

\* ------------------------------------------------------------------ bounds
\* Number of addresses the resolver may return.
MaxIPs == 2
\* Longest chunk delivered by one 'data' event.
MaxChunk == 2
\* Most bytes a server sends on one connection.
MaxStream == 3

\* Number of check_host invocations in one process.
MaxRuns == 2

\* ------------------------------------------------------------ identifiers
HOSTNAME == <<"host", 0>>
IPs == {<<"ip", i>> : i \in 1..MaxIPs}
Ids == IPs \cup {HOSTNAME}

\* ----------------------------------------------------------------- inputs
\* Bytes a server may send: 'A', 'B', and the two bytes of UTF-8 "e-acute".
AsciiBytes == {65, 66}
Bytes == {65, 66, 195, 169}
\* Greetings as strings (code units): "A", "AB", "e-acute", "A e-acute".
AsciiGreetings == {<<65, 66>>}
Greetings == {<<65>>, <<65, 66>>, <<233>>, <<65, 233>>}
\* err.message of socket and TLS errors; err.code of a failed lookup.
ErrMessages == {<<"ECONNREFUSED">>, <<"ECONNRESET", "\n">>}
ErrCodes == {<<"ENOTFOUND">>}

Chunks(B) == UNION {[1..n -> B] : n \in 1..MaxChunk}

\* ------------------------------------------------------------ string model
Whitespace == {" ", "\n"}

RECURSIVE TrimLeft(_)
TrimLeft(s) ==
  IF s # <<>> /\ Head(s) \in Whitespace THEN TrimLeft(Tail(s)) ELSE s

RECURSIVE TrimRight(_)
TrimRight(s) ==
  IF s # <<>> /\ s[Len(s)] \in Whitespace
  THEN TrimRight(SubSeq(s, 1, Len(s) - 1))
  ELSE s

\* String.prototype.trim
trim(s) == TrimRight(TrimLeft(s))

\* Buffer.prototype.toString(): UTF-8 decoding of bytes below 0xE0.  A byte
\* below 0x80 is its own character; a lead byte 0xC2..0xDF followed by a
\* continuation byte 0x80..0xBF is one character; any other byte decodes
\* to U+FFFD.
RECURSIVE toString(_)
toString(b) ==
  IF b = <<>> THEN <<>>
  ELSE IF b[1] < 128 THEN <<b[1]>> \o toString(Tail(b))
  ELSE IF b[1] \in 194..223 /\ Len(b) >= 2 /\ b[2] \in 128..191
       THEN <<(b[1] - 192) * 64 + (b[2] - 128)>> \o toString(Tail(Tail(b)))
  ELSE <<65533>> \o toString(Tail(b))

\* String.prototype.substr(0, n)
substr(s, n) == SubSeq(s, 1, IF n < Len(s) THEN n ELSE Len(s))

\* ------------------------------------------------------------------- state
VARIABLES
  pc,                 \* "start", "lookup" (dns.lookup pending), "done"
  greeting,           \* GREETING passed to check_host
  verbose,            \* VERBOSE passed to check_host
  run,                \* number of the current check_host invocation
  resolved,           \* addresses the lookup of this run returned
  HOSTS_REPORTED,     \* array of identifiers already reported
  IPS_WITH_GREETING,  \* array of IPs the greeting was received from
  log,                \* lines written by console.log
  published,          \* messages handed to the notification channel
  sock,               \* per IP: state of the net.Socket
  tls,                \* per IP: state of the TLS client
  buf,                \* per IP: buf of connect_tls_and_get_greeting
  stream,             \* per IP: all bytes delivered by 'data' events
  seen,               \* per IP: handlers and verdicts that have happened
  calls,              \* per identifier: number of service_is_down calls
  ends,               \* per IP: number of end() calls
  idle,               \* per IP: the socket has been inactive for TIMEOUT ms
  solo                \* per IP: a reporter private to that checker

vars == <<pc, greeting, verbose, idle, run, resolved, HOSTS_REPORTED,
          IPS_WITH_GREETING, log, published, sock, tls, buf, stream, seen,
          calls, ends, solo>>

ReceivedGreeting == <<"received greeting">>

\* -------------------------------------------------------- service_is_down
Contains(arr, id) == \E i \in 1..Len(arr) : arr[i] = id

\* service_is_down without the loop over HOSTS_REPORTED.
service_is_down_nodedup(id, why, reported, out) ==
  [reported |-> Append(reported, id),
   log |-> Append(out, [id |-> id, msg |-> trim(why)])]

service_is_down(id, why, reported, out) ==
  IF Contains(reported, id)
  THEN [reported |-> reported, log |-> out]
  ELSE [reported |-> Append(reported, id),
        log |-> Append(out, [id |-> id, msg |-> trim(why)])]

\* A call of service_is_down(id, why) by a handler.
Report(id, why) ==
  LET r == service_is_down(id, why, HOSTS_REPORTED, log)
  IN /\ HOSTS_REPORTED' = r.reported
     /\ log' = r.log
     /\ calls' = [calls EXCEPT ![id] = @ + 1]
     /\ UNCHANGED published

\* The same call made on the reporter private to the checker of ip.
SoloReport(ip, why) ==
  LET r == service_is_down(ip, why, solo[ip].reported, solo[ip].log)
  IN solo' = [solo EXCEPT ![ip] = r]

NoReport == UNCHANGED <<HOSTS_REPORTED, log, calls, published, solo>>

\* ------------------------------------------------------------------- Init
InitCommon ==
  /\ verbose \in BOOLEAN
  /\ HOSTS_REPORTED = <<>>
  /\ IPS_WITH_GREETING = <<>>
  /\ log = <<>>
  /\ published = <<>>
  /\ buf = [ip \in IPs |-> <<>>]
  /\ stream = [ip \in IPs |-> <<>>]
  /\ run = 1
  /\ idle = [ip \in IPs |-> FALSE]
  /\ calls = [id \in Ids |-> 0]
  /\ ends = [ip \in IPs |-> 0]
  /\ solo = [ip \in IPs |-> [reported |-> <<>>, log |-> <<>>]]

Init ==
  /\ InitCommon
  /\ pc = "start"
  /\ greeting \in AsciiGreetings
  /\ resolved = {}
  /\ seen = [ip \in IPs |-> {}]
  /\ sock = [ip \in IPs |-> "none"]
  /\ tls = [ip \in IPs |-> "none"]

\* ------------------------------------------------------------- check_host
\* check_host: dns.lookup is called; its callback runs later.
check_host ==
  /\ pc = "start"
  /\ pc' = "lookup"
  /\ UNCHANGED <<greeting, verbose, idle, run, resolved, HOSTS_REPORTED, IPS_WITH_GREETING, log,
                 published, sock, tls, buf, stream, seen, calls, ends, solo>>

\* The lookup callback with err set, without its return: the loop over ips
\* runs as well.
LookupError_fallthrough(code) ==
  /\ pc = "lookup"
  /\ pc' = "done"
  /\ Report(HOSTNAME, <<"DNS error:", " ">> \o code)
  /\ \E ip \in IPs : sock' = [sock EXCEPT ![ip] = "connecting"]
  /\ UNCHANGED <<greeting, verbose, idle, run, resolved, IPS_WITH_GREETING, tls, buf,
                 stream, seen, ends, solo>>

\* The lookup callback with err set.
LookupError(code) ==
  /\ pc = "lookup"
  /\ pc' = "done"
  /\ Report(HOSTNAME, <<"DNS error:", " ">> \o code)
  /\ UNCHANGED <<greeting, verbose, idle, run, resolved, IPS_WITH_GREETING, sock, tls, buf,
                 stream, seen, ends, solo>>

\* check_ip: the socket is created and starts connecting.
check_ip(ip, s) == [s EXCEPT ![ip] = "connecting"]

\* The loop over ips started at its second element.
CheckAll_skipfirst(ips, s) ==
  [ip \in DOMAIN s |->
     IF \E i \in 2..Len(ips) : ips[i] = ip THEN "connecting" ELSE s[ip]]

RECURSIVE CheckAll(_, _)
CheckAll(ips, s) ==
  IF ips = <<>> THEN s ELSE CheckAll(Tail(ips), check_ip(Head(ips), s))

\* The lookup callback without err: check_ip for every address, in order.
LookupSuccess(ips) ==
  /\ pc = "lookup"
  /\ pc' = "done"
  /\ sock' = CheckAll(ips, sock)
  /\ resolved' = {ips[i] : i \in 1..Len(ips)}
  /\ NoReport
  /\ UNCHANGED <<greeting, verbose, idle, run, IPS_WITH_GREETING, tls, buf,
                 stream, seen, ends>>

\* Lists of distinct addresses a lookup may return (possibly none).
Resolved ==
  {s \in UNION {[1..n -> IPs] : n \in 0..MaxIPs} :
     \A i, j \in 1..Len(s) : i # j => s[i] # s[j]}

\* --------------------------------------------------------------- check_ip
Mark(ip, e) == seen' = [seen EXCEPT ![ip] = @ \cup {e}]

\* Activity on the socket restarts the timer set by setTimeout.
Active(ip) == idle' = [idle EXCEPT ![ip] = FALSE]

\* 'connect': connect_tls_and_get_greeting starts a TLS client on the
\* socket with an empty buf.
Connect(ip) ==
  /\ sock[ip] = "connecting"
  /\ sock' = [sock EXCEPT ![ip] = "connected"]
  /\ tls' = [tls EXCEPT ![ip] = "handshaking"]
  /\ buf' = [buf EXCEPT ![ip] = <<>>]
  /\ Active(ip)
  /\ NoReport
  /\ UNCHANGED <<pc, greeting, verbose, run, resolved, IPS_WITH_GREETING, stream,
                 seen, ends>>

\* The TLS handshake completes; data events may follow.
Handshake(ip) ==
  /\ sock[ip] = "connected"
  /\ tls[ip] = "handshaking"
  /\ tls' = [tls EXCEPT ![ip] = "secure"]
  /\ Mark(ip, "secure")
  /\ Active(ip)
  /\ NoReport
  /\ UNCHANGED <<pc, greeting, verbose, run, resolved, IPS_WITH_GREETING, sock, buf,
                 stream, ends>>

\* 'error' on the socket, while connecting or connected.
SocketError(ip, msg) ==
  /\ sock[ip] \in {"connecting", "connected"}
  /\ Report(ip, <<"error:", " ">> \o msg)
  /\ SoloReport(ip, <<"error:", " ">> \o msg)
  /\ sock' = [sock EXCEPT ![ip] = "destroyed"]
  /\ Mark(ip, "error")
  /\ UNCHANGED <<pc, greeting, verbose, idle, run, resolved, IPS_WITH_GREETING, tls, buf,
                 stream, ends>>

\* The 'timeout' handler without its service_is_down call.
Timeout_silent(ip) ==
  /\ sock[ip] \in {"connecting", "connected"}
  /\ NoReport
  /\ sock' = [sock EXCEPT ![ip] = "destroyed"]
  /\ Mark(ip, "timeout")
  /\ UNCHANGED <<pc, greeting, verbose, idle, run, resolved, IPS_WITH_GREETING, tls, buf,
                 stream, ends>>

\* 'timeout' on the socket, while connecting or connected.
Timeout(ip) ==
  /\ sock[ip] \in {"connecting", "connected"}
  /\ Report(ip, <<"timeout">>)
  /\ SoloReport(ip, <<"timeout">>)
  /\ sock' = [sock EXCEPT ![ip] = "destroyed"]
  /\ Mark(ip, "timeout")
  /\ UNCHANGED <<pc, greeting, verbose, idle, run, resolved, IPS_WITH_GREETING, tls, buf,
                 stream, ends>>

\* findIndex with a callback that accepts every element.
findIndex_any(arr, ip) == IF Len(arr) > 0 THEN 1 ELSE -1

\* Array.prototype.findIndex(e => e === ip), with indices from 1: the first
\* index holding ip, or -1.
findIndex(arr, ip) ==
  IF \E i \in 1..Len(arr) : arr[i] = ip
  THEN CHOOSE i \in 1..Len(arr) :
         arr[i] = ip /\ \A j \in 1..(i - 1) : arr[j] # ip
  ELSE -1

\* The 'close' handler with its test inverted: it reports only IPs that
\* sent the greeting.
Close_inverted(ip) ==
  /\ sock[ip] \in {"connected", "destroyed"}
  /\ sock' = [sock EXCEPT ![ip] = "closed"]
  /\ IF findIndex(IPS_WITH_GREETING, ip) # -1
     THEN Report(ip, <<"greeting not found">>)
     ELSE UNCHANGED <<HOSTS_REPORTED, log, calls, published>>
  /\ IF "match" \notin seen[ip]
     THEN SoloReport(ip, <<"greeting not found">>)
     ELSE UNCHANGED solo
  /\ Mark(ip, "close")
  /\ UNCHANGED <<pc, greeting, verbose, idle, run, resolved, IPS_WITH_GREETING, tls, buf,
                 stream, ends>>

\* The 'close' handler without its test: it reports every closed socket.
Close_always(ip) ==
  /\ sock[ip] \in {"connected", "destroyed"}
  /\ sock' = [sock EXCEPT ![ip] = "closed"]
  /\ Report(ip, <<"greeting not found">>)
  /\ IF "match" \notin seen[ip]
     THEN SoloReport(ip, <<"greeting not found">>)
     ELSE UNCHANGED solo
  /\ Mark(ip, "close")
  /\ UNCHANGED <<pc, greeting, verbose, idle, run, resolved, IPS_WITH_GREETING, tls, buf,
                 stream, ends>>

\* 'close' on the socket: the peer closed, or the socket was destroyed.
Close(ip) ==
  /\ sock[ip] \in {"connected", "destroyed"}
  /\ sock' = [sock EXCEPT ![ip] = "closed"]
  /\ IF findIndex(IPS_WITH_GREETING, ip) = -1
     THEN Report(ip, <<"greeting not found">>)
     ELSE UNCHANGED <<HOSTS_REPORTED, log, calls, published>>
  /\ IF "match" \notin seen[ip]
     THEN SoloReport(ip, <<"greeting not found">>)
     ELSE UNCHANGED solo
  /\ Mark(ip, "close")
  /\ UNCHANGED <<pc, greeting, verbose, idle, run, resolved, IPS_WITH_GREETING, tls, buf,
                 stream, ends>>

\* ------------------------------------------- connect_tls_and_get_greeting
\* The 'data' handler without its first test: it keeps appending and
\* comparing after the verdict.
on_data_noguard(b, data, g) ==
  LET nb == b \o data
  IN IF Len(nb) < Len(g) THEN [buf |-> nb, verdict |-> "PENDING"]
     ELSE IF substr(toString(nb), Len(g)) = g
          THEN [buf |-> nb, verdict |-> "MATCHED"]
          ELSE [buf |-> nb, verdict |-> "MISMATCHED"]

\* The 'data' handler with > for >= in its first test: a buf of exactly
\* greeting.length bytes is appended to again.
on_data_offbyone(b, data, g) ==
  IF Len(b) > Len(g) THEN [buf |-> b, verdict |-> "IGNORED"]
  ELSE LET nb == b \o data
       IN IF Len(nb) < Len(g) THEN [buf |-> nb, verdict |-> "PENDING"]
          ELSE IF substr(toString(nb), Len(g)) = g
               THEN [buf |-> nb, verdict |-> "MATCHED"]
               ELSE [buf |-> nb, verdict |-> "MISMATCHED"]

\* The 'data' handler up to its verdict: the new buf and what was decided.
on_data(b, data, g) ==
  IF Len(b) >= Len(g) THEN [buf |-> b, verdict |-> "IGNORED"]
  ELSE LET nb == b \o data
       IN IF Len(nb) < Len(g) THEN [buf |-> nb, verdict |-> "PENDING"]
          ELSE IF substr(toString(nb), Len(g)) = g
               THEN [buf |-> nb, verdict |-> "MATCHED"]
               ELSE [buf |-> nb, verdict |-> "MISMATCHED"]

\* The 'data' handler without the service_is_down call of a mismatch: it
\* only ends the socket.
Data_mismatch_silent(ip, data) ==
  /\ sock[ip] = "connected"
  /\ tls[ip] = "secure"
  /\ Len(stream[ip]) + Len(data) <= MaxStream
  /\ stream' = [stream EXCEPT ![ip] = @ \o data]
  /\ LET r == on_data(buf[ip], data, greeting)
     IN /\ buf' = [buf EXCEPT ![ip] = r.buf]
        /\ CASE r.verdict = "MATCHED" ->
                  /\ IPS_WITH_GREETING' = Append(IPS_WITH_GREETING, ip)
                  /\ log' = IF verbose
                            THEN Append(log, [id |-> ip,
                                              msg |-> ReceivedGreeting])
                            ELSE log
                  /\ ends' = [ends EXCEPT ![ip] = @ + 1]
                  /\ Mark(ip, "match")
                  /\ UNCHANGED <<HOSTS_REPORTED, calls, published, solo>>
             [] r.verdict = "MISMATCHED" ->
                  /\ NoReport
                  /\ ends' = [ends EXCEPT ![ip] = @ + 1]
                  /\ Mark(ip, "mismatch")
                  /\ UNCHANGED IPS_WITH_GREETING
             [] OTHER ->
                  /\ NoReport
                  /\ UNCHANGED <<IPS_WITH_GREETING, ends, seen>>
  /\ Active(ip)
  /\ UNCHANGED <<pc, greeting, verbose, run, resolved, sock, tls>>

\* 'data' on the TLS client.
Data(ip, data) ==
  /\ sock[ip] = "connected"
  /\ tls[ip] = "secure"
  /\ Len(stream[ip]) + Len(data) <= MaxStream
  /\ stream' = [stream EXCEPT ![ip] = @ \o data]
  /\ LET r == on_data(buf[ip], data, greeting)
     IN /\ buf' = [buf EXCEPT ![ip] = r.buf]
        /\ CASE r.verdict = "MATCHED" ->
                  /\ IPS_WITH_GREETING' = Append(IPS_WITH_GREETING, ip)
                  /\ log' = IF verbose
                            THEN Append(log, [id |-> ip,
                                              msg |-> ReceivedGreeting])
                            ELSE log
                  /\ ends' = [ends EXCEPT ![ip] = @ + 1]
                  /\ Mark(ip, "match")
                  /\ UNCHANGED <<HOSTS_REPORTED, calls, published, solo>>
             [] r.verdict = "MISMATCHED" ->
                  /\ Report(ip, <<"unexpected greeting">>)
                  /\ SoloReport(ip, <<"unexpected greeting">>)
                  /\ ends' = [ends EXCEPT ![ip] = @ + 1]
                  /\ Mark(ip, "mismatch")
                  /\ UNCHANGED IPS_WITH_GREETING
             [] OTHER ->
                  /\ NoReport
                  /\ UNCHANGED <<IPS_WITH_GREETING, ends, seen>>
  /\ Active(ip)
  /\ UNCHANGED <<pc, greeting, verbose, run, resolved, sock, tls>>

\* 'error' on the TLS client: during the handshake or after it, and also
\* after the socket under it has gone.
TlsError(ip, msg) ==
  /\ sock[ip] \in {"connected", "destroyed", "closed"}
  /\ tls[ip] \in {"handshaking", "secure"}
  /\ tls' = [tls EXCEPT ![ip] = "errored"]
  /\ Report(ip, <<"TLS error:", " ">> \o msg)
  /\ SoloReport(ip, <<"TLS error:", " ">> \o msg)
  /\ ends' = [ends EXCEPT ![ip] = @ + 1]
  /\ Mark(ip, "tlserror")
  /\ UNCHANGED <<pc, greeting, verbose, idle, run, resolved, IPS_WITH_GREETING, sock, buf,
                 stream>>

\* ------------------------------------------------------------------- Next
Next ==
  \/ check_host
  \/ \E code \in ErrCodes : LookupError(code)
  \/ \E ips \in Resolved : LookupSuccess(ips)
  \/ \E ip \in IPs : Connect(ip)
  \/ \E ip \in IPs : Handshake(ip)
  \/ \E ip \in IPs, msg \in ErrMessages : SocketError(ip, msg)
  \/ \E ip \in IPs : Timeout(ip)
  \/ \E ip \in IPs : Close(ip)
  \/ \E ip \in IPs, data \in Chunks(AsciiBytes) : Data(ip, data)
  \/ \E ip \in IPs, msg \in ErrMessages : TlsError(ip, msg)

Spec == Init /\ [][Next]_vars

\* The next scheduled run in the same process: every connection of the
\* previous run is over and check_host is about to be invoked again.  The
\* module-level arrays and the console are what they were; sockets, TLS
\* clients and bufs of the new run are new.
Rerun ==
  /\ pc = "done"
  /\ \A ip \in IPs : sock[ip] \in {"none", "closed"}
  /\ run < MaxRuns
  /\ run' = run + 1
  /\ pc' = "start"
  /\ resolved' = {}
  /\ idle' = [ip \in IPs |-> FALSE]
  /\ sock' = [ip \in IPs |-> "none"]
  /\ tls' = [ip \in IPs |-> "none"]
  /\ buf' = [ip \in IPs |-> <<>>]
  /\ stream' = [ip \in IPs |-> <<>>]
  /\ seen' = [ip \in IPs |-> {}]
  /\ calls' = [id \in Ids |-> 0]
  /\ ends' = [ip \in IPs |-> 0]
  /\ solo' = [ip \in IPs |-> [reported |-> <<>>, log |-> <<>>]]
  /\ UNCHANGED <<greeting, verbose, HOSTS_REPORTED, IPS_WITH_GREETING, log,
                 published>>

\* Several runs in one process, for a name with at most one address.
NextRuns ==
  \/ check_host
  \/ \E code \in ErrCodes : LookupError(code)
  \/ \E ips \in {r \in Resolved : Len(r) <= 1} : LookupSuccess(ips)
  \/ \E ip \in IPs : Connect(ip)
  \/ \E ip \in IPs : Handshake(ip)
  \/ \E ip \in IPs, msg \in ErrMessages : SocketError(ip, msg)
  \/ \E ip \in IPs : Timeout(ip)
  \/ \E ip \in IPs : Close(ip)
  \/ \E ip \in IPs, data \in Chunks(AsciiBytes) : Data(ip, data)
  \/ \E ip \in IPs, msg \in ErrMessages : TlsError(ip, msg)
  \/ Rerun

RunsSpec == Init /\ [][NextRuns]_vars

\* A single connection past its TLS handshake, for any configured greeting
\* and any bytes from the server: the greeting matcher on its own.
TheIP == <<"ip", 1>>

InitMatcher ==
  /\ InitCommon
  /\ pc = "done"
  /\ greeting \in Greetings
  /\ resolved = {TheIP}
  /\ seen = [ip \in IPs |-> IF ip = TheIP THEN {"secure"} ELSE {}]
  /\ sock = [ip \in IPs |-> IF ip = TheIP THEN "connected" ELSE "none"]
  /\ tls = [ip \in IPs |-> IF ip = TheIP THEN "secure" ELSE "none"]

NextMatcher == \E data \in Chunks(Bytes) : Data(TheIP, data)

MatcherSpec == InitMatcher /\ [][NextMatcher]_vars

\* Time passes on the timer of the socket of ip with no activity on it.
Quiet(ip) ==
  /\ sock[ip] \in {"connecting", "connected"}
  /\ ~idle[ip]
  /\ idle' = [idle EXCEPT ![ip] = TRUE]
  /\ UNCHANGED <<pc, greeting, verbose, run, resolved, HOSTS_REPORTED,
                 IPS_WITH_GREETING, log, published, sock, tls, buf, stream,
                 seen, calls, ends, solo>>

\* The timer runs out: 'timeout' is emitted after TIMEOUT ms of inactivity.
Expire(ip) == idle[ip] /\ Timeout(ip)

\* 'data' after the verdict, past the bytes kept in stream: the handler
\* returns at its first test, and the activity restarts the timer.
Chatter(ip) ==
  /\ sock[ip] = "connected"
  /\ tls[ip] = "secure"
  /\ on_data(buf[ip], <<65>>, greeting).verdict = "IGNORED"
  /\ idle[ip]
  /\ Active(ip)
  /\ UNCHANGED <<pc, greeting, verbose, run, resolved, HOSTS_REPORTED,
                 IPS_WITH_GREETING, log, published, sock, tls, buf, stream,
                 seen, calls, ends, solo>>

\* One run for a name with at most one address, with the timer of the
\* socket kept: it runs while the socket is inactive and restarts on data.
NextLive ==
  \/ check_host
  \/ \E code \in ErrCodes : LookupError(code)
  \/ \E ips \in {r \in Resolved : Len(r) <= 1} : LookupSuccess(ips)
  \/ \E ip \in IPs : Connect(ip)
  \/ \E ip \in IPs : Handshake(ip)
  \/ \E ip \in IPs, msg \in ErrMessages : SocketError(ip, msg)
  \/ \E ip \in IPs : Quiet(ip)
  \/ \E ip \in IPs : Expire(ip)
  \/ \E ip \in IPs : Close(ip)
  \/ \E ip \in IPs, data \in Chunks(AsciiBytes) : Data(ip, data)
  \/ \E ip \in IPs : Chatter(ip)
  \/ \E ip \in IPs, msg \in ErrMessages : TlsError(ip, msg)

\* Time passes, a timer left running runs out, and a destroyed socket
\* emits 'close'.  Nothing is assumed of the server.
LiveSpec ==
  /\ Init
  /\ [][NextLive]_vars
  /\ \A ip \in IPs :
       /\ WF_vars(Quiet(ip))
       /\ WF_vars(Expire(ip))
       /\ WF_vars(sock[ip] = "destroyed" /\ Close(ip))

\* ------------------------------------------------------------- vocabulary
\* The down-reports delivered for id: the lines service_is_down logged.
DownLines(id) ==
  SelectSeq(log, LAMBDA l : l.id = id /\ l.msg # ReceivedGreeting)

Occurrences(arr, id) == Cardinality({i \in 1..Len(arr) : arr[i] = id})

\* The verdict the 'data' handler of ip has reached.
Verdict(ip) ==
  IF "match" \in seen[ip] THEN "MATCHED"
  ELSE IF "mismatch" \in seen[ip] THEN "MISMATCHED"
  ELSE "PENDING"

FailureEvents == {"error", "timeout", "tlserror", "mismatch"}

\* The check of ip has failed at some stage.
Failed(ip) ==
  \/ seen[ip] \cap FailureEvents # {}
  \/ "close" \in seen[ip] /\ "match" \notin seen[ip]

\* ----------------------------------------------------------------- claims
\* C1: for every identifier at most one down-report is delivered and
\* HOSTS_REPORTED never holds the identifier twice, however many handlers
\* called service_is_down for it.
C1_AtMostOneReport ==
  \A id \in Ids :
    /\ Len(DownLines(id)) <= 1
    /\ Occurrences(HOSTS_REPORTED, id) <= 1

\* An address the reporter was called for three times, by handlers that ran
\* in some order, with one line delivered.
C1_Witness ==
  \E ip \in IPs :
    /\ calls[ip] >= 3
    /\ {"tlserror", "timeout", "close"} \subseteq seen[ip]
    /\ Len(DownLines(ip)) = 1

\* C2: every address whose check failed at some stage (socket error, TLS
\* error, timeout, greeting mismatch, close before the greeting was
\* verified) has exactly one delivered down-report, from the failing handler
\* on and so at the end of the run.
C2_FailedReportedOnce ==
  \A ip \in IPs : Failed(ip) => Len(DownLines(ip)) = 1

\* Both addresses failed, at different stages, and both connections are
\* closed.
C2_Witness ==
  \E a, b \in IPs :
    /\ a # b
    /\ sock[a] = "closed" /\ sock[b] = "closed"
    /\ seen[a] = {"close"}
    /\ "mismatch" \in seen[b]
    /\ Len(DownLines(a)) = 1 /\ Len(DownLines(b)) = 1

\* C3: an address whose checker reached MATCHED gets no down-report,
\* whatever follows on the connection.
C3_MatchedNeverReported ==
  \A ip \in IPs : "match" \in seen[ip] => Len(DownLines(ip)) = 0

\* C4: a lookup that succeeds with zero addresses is reported once on the
\* hostname as a DNS error, and no checker is launched.
C4_EmptyLookupReported ==
  (pc = "done" /\ \A ip \in IPs : sock[ip] = "none") =>
     /\ Len(DownLines(HOSTNAME)) = 1
     /\ \E code \in ErrCodes :
          DownLines(HOSTNAME)[1].msg = <<"DNS error:", " ">> \o code

\* C5: when the lookup fails, exactly one down-report "DNS error: <code>" on
\* the hostname is delivered, no connection is opened and no IP is reported.
C5_LookupErrorReported ==
  calls[HOSTNAME] > 0 =>
    /\ Len(DownLines(HOSTNAME)) = 1
    /\ \E code \in ErrCodes :
         DownLines(HOSTNAME)[1].msg = <<"DNS error:", " ">> \o code
    /\ \A ip \in IPs :
         /\ sock[ip] = "none"
         /\ Len(DownLines(ip)) = 0
         /\ ~Contains(HOSTS_REPORTED, ip)
         /\ ~Contains(IPS_WITH_GREETING, ip)

\* The lookup callback ran with an error.
C5_Witness ==
  /\ pc = "done"
  /\ calls[HOSTNAME] = 1
  /\ Contains(HOSTS_REPORTED, HOSTNAME)

\* C6: every delivered down-report is also handed, as the same message, to
\* the notification channel, once.
C6_LoggedIsPublished ==
  \A id \in Ids :
    \A i \in 1..Len(DownLines(id)) :
      Occurrences(published, DownLines(id)[i]) = 1

\* What is decided for the address b: the state of its own checker and the
\* outcome recorded for it in the shared arrays and the log.
Outcome(b) ==
  <<sock[b], tls[b], buf[b], DownLines(b), Contains(HOSTS_REPORTED, b),
    Contains(IPS_WITH_GREETING, b)>>

\* Whether and with which reason an address is reported is what a reporter
\* private to its checker would have delivered for the checker's own events.
Independent ==
  \A ip \in IPs :
    /\ DownLines(ip) = solo[ip].log
    /\ Contains(HOSTS_REPORTED, ip) <=> Contains(solo[ip].reported, ip)
    /\ Contains(IPS_WITH_GREETING, ip) <=> "match" \in seen[ip]

\* An event of one checker leaves what is decided for every other address
\* as it was.
OneCheckerPerStep ==
  pc = "done" => \E a \in IPs : \A b \in IPs \ {a} : Outcome(b)' = Outcome(b)

\* C7 (as stated): reports of one checker are unaffected by the other
\* checkers, and the checkers write no shared state but the set of reported
\* identifiers.
C7_OnlyReportedSetShared ==
  /\ []Independent
  /\ [][OneCheckerPerStep]_vars
  /\ [][pc = "done" => IPS_WITH_GREETING' = IPS_WITH_GREETING]_vars

\* C7 (amended): reports of one checker are unaffected by the other
\* checkers; the state the checkers share is HOSTS_REPORTED and
\* IPS_WITH_GREETING, and an event of one checker changes in them only what
\* concerns its own address.
C7_Independent ==
  /\ []Independent
  /\ [][OneCheckerPerStep]_vars

\* Two checkers, one matched and closed without a report, the other closed
\* and reported, either order.
C7_Witness ==
  \E a, b \in IPs :
    /\ a # b
    /\ "match" \in seen[a] /\ sock[a] = "closed" /\ Len(DownLines(a)) = 0
    /\ "close" \in seen[b] /\ Len(DownLines(b)) = 1
    /\ Contains(IPS_WITH_GREETING, a) /\ Contains(HOSTS_REPORTED, b)

\* ------------------------------------------------------- greeting matcher
\* UTF-8 encoding of a string of code units below 0x800.
RECURSIVE utf8(_)
utf8(str) ==
  IF str = <<>> THEN <<>>
  ELSE IF str[1] < 128 THEN <<str[1]>> \o utf8(Tail(str))
  ELSE <<192 + (str[1] \div 64), 128 + (str[1] % 64)>> \o utf8(Tail(str))

\* The reference: compare the first len(G) bytes of the stream with G.
PrefixVerdict(g, bytes) ==
  LET G == utf8(g)
  IN IF Len(bytes) < Len(G) THEN "PENDING"
     ELSE IF SubSeq(bytes, 1, Len(G)) = G THEN "MATCHED"
     ELSE "MISMATCHED"

\* C8: the verdict of the 'data' handler is the reference prefix comparison
\* of the bytes received so far with the greeting.
C8_VerdictIsPrefixComparison ==
  \A ip \in IPs :
    tls[ip] = "secure" => Verdict(ip) = PrefixVerdict(greeting, stream[ip])

\* The verdict after feeding a list of chunks to the 'data' handler,
\* starting from buf b and verdict v.
RECURSIVE FeedAll(_, _, _, _)
FeedAll(chunks, b, v, g) ==
  IF chunks = <<>> THEN v
  ELSE LET r == on_data(b, Head(chunks), g)
       IN FeedAll(Tail(chunks), r.buf,
                  IF r.verdict \in {"MATCHED", "MISMATCHED"}
                  THEN r.verdict ELSE v,
                  g)

OneAtATime(bytes) == [i \in 1..Len(bytes) |-> <<bytes[i]>>]
AllAtOnce(bytes) == IF bytes = <<>> THEN <<>> ELSE <<bytes>>

\* C9: whatever the split into chunks the bytes arrived in, the verdict is
\* the one reached by feeding them one at a time and the one reached by
\* feeding them all at once.
C9_ChunkingInvariant ==
  \A ip \in IPs :
    tls[ip] = "secure" =>
      /\ Verdict(ip) = FeedAll(OneAtATime(stream[ip]), <<>>, "PENDING",
                               greeting)
      /\ Verdict(ip) = FeedAll(AllAtOnce(stream[ip]), <<>>, "PENDING",
                               greeting)

\* C10: a 'data' event after the verdict changes neither the verdict nor
\* buf, records no match, calls no reporter and issues no end().
C10_DataAfterVerdictIgnored ==
  [][\A ip \in IPs :
       (Verdict(ip) # "PENDING" /\ stream'[ip] # stream[ip]) =>
          /\ Verdict(ip)' = Verdict(ip)
          /\ buf' = buf
          /\ seen' = seen
          /\ IPS_WITH_GREETING' = IPS_WITH_GREETING
          /\ HOSTS_REPORTED' = HOSTS_REPORTED
          /\ log' = log
          /\ calls' = calls
          /\ ends' = ends
          /\ sock' = sock]_vars

\* A verdict was reached and a later 'data' event was delivered.
C10_Witness ==
  \E ip \in IPs :
    /\ Verdict(ip) # "PENDING"
    /\ Len(stream[ip]) > Len(buf[ip])
    /\ ends[ip] = 1

\* ------------------------------------------------------ reasons of reports
TlsReasons == {trim(<<"TLS error:", " ">> \o m) : m \in ErrMessages}
NotFound == <<"greeting not found">>

\* The connection of ip was closed by the peer before the TLS handshake had
\* completed, and both the socket's 'close' and the TLS 'error' were
\* delivered, in either order.
ClosedInHandshake(ip) ==
  /\ {"close", "tlserror"} \subseteq seen[ip]
  /\ seen[ip] \cap {"secure", "error", "timeout"} = {}

\* C11: when the server closes the connection before the TLS handshake
\* completes, the delivered down-report carries a TLS error reason, never
\* "greeting not found", in whichever order 'close' and the TLS 'error'
\* arrive.
C11_HandshakeCloseIsTlsError ==
  \A ip \in IPs :
    ClosedInHandshake(ip) =>
      /\ Len(DownLines(ip)) = 1
      /\ DownLines(ip)[1].msg \in TlsReasons

\* The server of ip accepted the connection, has sent nothing (no handshake
\* message, no data, no error) and has not closed: the only events are the
\* socket's 'timeout' and the 'close' that follows the destroy.
Silent(ip) ==
  /\ tls[ip] = "handshaking"
  /\ stream[ip] = <<>>
  /\ seen[ip] \subseteq {"timeout", "close"}
  /\ "close" \in seen[ip] => "timeout" \in seen[ip]

\* C12: a server that accepts the connection, sends nothing and never
\* closes is reported with reason "timeout" when the socket's timeout fires
\* and not before, and that is the only report: the 'close' after the
\* destroy adds no "greeting not found".
C12_SilentServerTimeout ==
  \A ip \in IPs :
    Silent(ip) =>
      IF "timeout" \in seen[ip]
      THEN DownLines(ip) = <<[id |-> ip, msg |-> <<"timeout">>]>>
      ELSE DownLines(ip) = <<>>

\* A silent server timed out, the socket was destroyed and closed, and both
\* handlers called the reporter.
C12_Witness ==
  \E ip \in IPs :
    /\ Silent(ip)
    /\ sock[ip] = "closed"
    /\ calls[ip] = 2

\* C13: when the first len(G) bytes received differ from the greeting, the
\* delivered down-report has reason "unexpected greeting", the connection
\* has been ended, and the 'close' that follows adds no second report.
C13_MismatchReported ==
  \A ip \in IPs :
    PrefixVerdict(greeting, stream[ip]) = "MISMATCHED" =>
      /\ "mismatch" \in seen[ip]
      /\ DownLines(ip) = <<[id |-> ip, msg |-> <<"unexpected greeting">>]>>
      /\ ends[ip] >= 1

\* A mismatched connection that has closed, its 'close' handler having
\* called the reporter as well.
C13_Witness ==
  \E ip \in IPs :
    /\ "mismatch" \in seen[ip]
    /\ sock[ip] = "closed"
    /\ calls[ip] >= 2
    /\ Len(DownLines(ip)) = 1

\* C14: HOSTS_REPORTED and IPS_WITH_GREETING are empty at the start of
\* every run, so that in every run the first failure of an address still
\* delivers its down-report, whatever earlier runs reported or recorded.
C14_RunScoped ==
  [][/\ run' # run =>
          /\ HOSTS_REPORTED' = <<>>
          /\ IPS_WITH_GREETING' = <<>>
     /\ \A ip \in IPs :
          (run' = run /\ ~Failed(ip) /\ Failed(ip)') =>
             Len(DownLines(ip))' = Len(DownLines(ip)) + 1]_vars

\* C15: every error handler of a checker (socket 'error', TLS 'error',
\* 'timeout') destroys the connection after its report and calls no end().
C15_ErrorPathsDestroy ==
  [][\A ip \in IPs :
       (seen'[ip] \ seen[ip]) \cap {"error", "timeout", "tlserror"} # {} =>
          /\ sock'[ip] = "destroyed"
          /\ ends'[ip] = ends[ip]]_vars

\* The step delivers a down-report "greeting not found" for ip.
NotFoundDelivered(ip) ==
  /\ Len(DownLines(ip))' = Len(DownLines(ip)) + 1
  /\ DownLines(ip)'[Len(DownLines(ip)) + 1].msg = NotFound

\* The step is the 'close' of the socket of ip.
Closes(ip) == sock[ip] # "closed" /\ sock'[ip] = "closed"

\* C16: "greeting not found" is delivered only by the close of a connection
\* on which fewer than len(G) bytes were received and for which no error,
\* TLS error, timeout or mismatch had been reported; and every close of a
\* connection with no match recorded calls the reporter with it.
C16_NotFoundOnlyOnBareClose ==
  [][\A ip \in IPs :
       /\ NotFoundDelivered(ip) =>
            /\ Closes(ip)
            /\ Len(stream[ip]) < Len(utf8(greeting))
            /\ seen[ip] \cap FailureEvents = {}
            /\ DownLines(ip) = <<>>
       /\ (Closes(ip) /\ ~Contains(IPS_WITH_GREETING, ip)) =>
            /\ calls'[ip] = calls[ip] + 1
            /\ DownLines(ip) = <<>> =>
                 DownLines(ip)' = <<[id |-> ip, msg |-> NotFound]>>]_vars

\* A connection that closed after part of the greeting, reported as
\* "greeting not found".
C16_Witness ==
  \E ip \in IPs :
    /\ sock[ip] = "closed"
    /\ Len(stream[ip]) = 1
    /\ DownLines(ip) = <<[id |-> ip, msg |-> NotFound]>>

\* C17: every launched Address Checker eventually reaches a terminal
\* outcome (a recorded match or a delivered down-report) with its connection
\* closed, whatever the server does, given that the timer fires on
\* inactivity.
C17_CheckerTerminates ==
  \A ip \in IPs :
    (sock[ip] # "none") ~>
       /\ sock[ip] = "closed"
       /\ "match" \in seen[ip] \/ Len(DownLines(ip)) = 1


\* C18: buf never holds more than len(G) bytes, whatever the sizes of the
\* chunks.
C18_BufferAtMostGreeting ==
  \A ip \in IPs : Len(buf[ip]) <= Len(utf8(greeting))

\* C18 (amended): buf grows only while it holds fewer than greeting.length
\* bytes and no verdict is reached; the chunk that completes it is appended
\* whole, so buf holds at most greeting.length - 1 bytes and one chunk.
C18_BufferStopsAtVerdict ==
  [][\A ip \in IPs :
       buf'[ip] # buf[ip] =>
         /\ Len(buf[ip]) < Len(greeting)
         /\ Verdict(ip) = "PENDING"
         /\ Len(buf'[ip]) <= Len(greeting) - 1 + MaxChunk]_vars

\* A buf longer than the greeting, with later data left out of it.
C18_Witness ==
  \E ip \in IPs :
    /\ Len(buf[ip]) > Len(utf8(greeting))
    /\ Len(stream[ip]) > Len(buf[ip])
    /\ Verdict(ip) # "PENDING"


\* C19: the lookup callback starts a checker for every resolved address and
\* for no other, all in the one callback, before any event of any checker;
\* no checker is started later or waits for another.
C19_OneCheckerPerAddress ==
  [][/\ \A ip \in IPs : sock'[ip] # "none" <=> ip \in resolved'
     /\ (pc = "lookup" /\ pc' = "done") =>
          \A ip \in resolved' : sock'[ip] = "connecting" /\ seen'[ip] = {}]_vars

\* Two addresses resolved: one checker still waits for its connection
\* while the other has received the greeting.
C19_Witness ==
  /\ Cardinality(resolved) = 2
  /\ \E a, b \in resolved :
       /\ sock[a] = "connecting"
       /\ "match" \in seen[b]


\* C20: within one run the hostname and the addresses are never both
\* reported on: once the hostname is reported no socket was created and no
\* IP is reported or recorded as greeted, and once an IP is reported or
\* recorded as greeted service_is_down was never called for the hostname.
C20_HostnameXorAddresses ==
  /\ Contains(HOSTS_REPORTED, HOSTNAME) =>
       \A ip \in IPs :
         /\ sock[ip] = "none"
         /\ ~Contains(HOSTS_REPORTED, ip)
         /\ ~Contains(IPS_WITH_GREETING, ip)
         /\ DownLines(ip) = <<>>
  /\ (\E ip \in IPs : \/ Contains(HOSTS_REPORTED, ip)
                      \/ Contains(IPS_WITH_GREETING, ip)) =>
       /\ calls[HOSTNAME] = 0
       /\ DownLines(HOSTNAME) = <<>>

\* One address reported down and another recorded as greeted.
C20_Witness ==
  \E a, b \in IPs :
    /\ Contains(HOSTS_REPORTED, a)
    /\ DownLines(a) # <<>>
    /\ Contains(IPS_WITH_GREETING, b)
    /\ ~Contains(HOSTS_REPORTED, HOSTNAME)

====
